---- MODULE Spec2Model ----
(***************************************************************************)
(* Model of the trading-signal engine of src/trading/services/trading.py:  *)
(* TradingStrategy.execute_trading_signal and the signal generators and    *)
(* helpers it calls, driven by an orchestrator that feeds each result's    *)
(* available_cash / position_after into the next call.                      *)
(*                                                                         *)
(* Numbers.  The engine computes in binary floating point (Python float,   *)
(* numpy float64).  The model keeps the arithmetic of that format, round   *)
(* to nearest with ties to even after every operation and gradual          *)
(* underflow, at a reduced width: a finite number is an integer n standing *)
(* for n / 2^FracBits whose magnitude has at most MantBits significant     *)
(* bits.  NaN is the one special value.                                    *)
(***************************************************************************)
EXTENDS Integers, Sequences, FiniteSets, TLC

\* ------------------------------------------------------------------ bounds
\* Width of the significand and of the fraction of the reduced float format.
MantBits == 5
FracBits == 4
\* Calls the orchestrator makes in one run.
MaxCalls == 2
\* The longest series a helper is applied to on its own.
MaxSeries == 3
\* Threads calling the Chronos model service, and the TimesFM model service.
ChronosThreads == 2
TimesfmThreads == 2

Scale == 2 ^ FracBits

\* The number n in the reduced format.
F(n) == n * Scale

\* ------------------------------------------------------- float arithmetic
NaN == 0 - 2 ^ 30

IsNaN(x) == x = NaN

Max2(a, b) == IF a >= b THEN a ELSE b

RECURSIVE BitLen(_)
BitLen(n) == IF n = 0 THEN 0 ELSE 1 + BitLen(n \div 2)

\* Spacing of the representable numbers around magnitude q.
Quantum(q) == 2 ^ Max2(0, BitLen(q) - MantBits)

\* Of lo and lo + u, the representable neighbours of num / den, the nearer
\* one; the one with the even significand on a tie.
Nearest(num, den, u, lo) ==
    IF 2 * (num - lo * den) < u * den THEN lo
    ELSE IF 2 * (num - lo * den) > u * den THEN lo + u
    ELSE IF (lo \div u) % 2 = 0 THEN lo ELSE lo + u

NearestIn(num, den, u) == Nearest(num, den, u, ((num \div den) \div u) * u)

\* num / den (num >= 0, den > 0) rounded to the nearest representable number.
RoundMag(num, den) == NearestIn(num, den, Quantum(num \div den))

Sgn(n) == IF n < 0 THEN 0 - 1 ELSE 1
Abs(n) == IF n < 0 THEN 0 - n ELSE n

RoundRat(num, den) == Sgn(num) * RoundMag(Abs(num), den)

FAdd(a, b) == IF IsNaN(a) \/ IsNaN(b) THEN NaN ELSE RoundRat(a + b, 1)
FSub(a, b) == IF IsNaN(a) \/ IsNaN(b) THEN NaN ELSE RoundRat(a - b, 1)
FMul(a, b) == IF IsNaN(a) \/ IsNaN(b) THEN NaN ELSE RoundRat(a * b, Scale)
\* b # 0 at every use outside numpy; numpy's division by 0 gives no finite
\* number (nan for 0/0, an infinity otherwise), which is NaN here.
FDiv(a, b) ==
    IF IsNaN(a) \/ IsNaN(b) \/ b = 0 THEN NaN
    ELSE RoundRat(Sgn(b) * a * Scale, Abs(b))
FAbs(a) == IF IsNaN(a) THEN NaN ELSE IF a < 0 THEN 0 - a ELSE a
FNeg(a) == IF IsNaN(a) THEN NaN ELSE 0 - a

\* Comparisons: every ordered comparison with NaN is false.
FLt(a, b) == ~IsNaN(a) /\ ~IsNaN(b) /\ a < b
FLe(a, b) == ~IsNaN(a) /\ ~IsNaN(b) /\ a <= b
FGt(a, b) == FLt(b, a)
FGe(a, b) == FLe(b, a)
FEq(a, b) == ~IsNaN(a) /\ ~IsNaN(b) /\ a = b

\* Python's builtin min(a, b) and max(a, b): the first argument unless the
\* second compares smaller (larger).
PyMin(a, b) == IF FLt(b, a) THEN b ELSE a
PyMax(a, b) == IF FGt(b, a) THEN b ELSE a


\* Square root, correctly rounded (numpy sqrt).
RECURSIVE ISqrtIn(_, _, _)
ISqrtIn(y, lo, hi) ==
    IF hi - lo <= 1 THEN lo
    ELSE LET mid == (lo + hi) \div 2
         IN  IF mid * mid <= y THEN ISqrtIn(y, mid, hi) ELSE ISqrtIn(y, lo, mid)

NearestRoot(y, u, lo) ==
    IF 4 * y < (2 * lo + u) * (2 * lo + u) THEN lo
    ELSE IF 4 * y > (2 * lo + u) * (2 * lo + u) THEN lo + u
    ELSE IF (lo \div u) % 2 = 0 THEN lo ELSE lo + u

NearestRootIn(y, q, u) == NearestRoot(y, u, (q \div u) * u)

RootOf(y, q) == NearestRootIn(y, q, Quantum(q))

FSqrt(a) ==
    IF IsNaN(a) \/ a < 0 THEN NaN
    ELSE RootOf(a * Scale, ISqrtIn(a * Scale, 0, a * Scale + 1))

\* ------------------------------------------------- Python values and dicts
\* Optional[...]: None is the empty tuple, a value v is <<v>>.
None == <<>>
Some(v) == <<v>>
IsNone(o) == Len(o) = 0
Val(o) == o[1]

\* params.get(key, default) and params.get(key): a request is a function
\* whose domain is the set of keys present.
Get(params, key, default) == IF key \in DOMAIN params THEN params[key] ELSE default
GetOpt(params, key) == IF key \in DOMAIN params THEN Some(params[key]) ELSE None

\* array[-window:], Python slice semantics (window 0 gives the whole array).
LastWindow(array, window) ==
    LET n == Len(array)
        first == IF window > 0 THEN Max2(n - window, 0) + 1
                 ELSE IF 0 - window >= n THEN n + 1 ELSE (0 - window) + 1
    IN  SubSeq(array, first, n)

\* Left-to-right sum, as numpy's add.reduce does below 8 elements.
RECURSIVE FSum(_)
FSum(xs) == IF Len(xs) = 0 THEN 0 ELSE FAdd(FSum(SubSeq(xs, 1, Len(xs) - 1)), xs[Len(xs)])

\* np.mean and np.std (population standard deviation); NaN on an empty array.
NpMean(xs) == IF Len(xs) = 0 THEN NaN ELSE FDiv(FSum(xs), F(Len(xs)))
NpStd(xs) ==
    IF Len(xs) = 0 THEN NaN
    ELSE LET m  == NpMean(xs)
             d  == [i \in 1..Len(xs) |-> FSub(xs[i], m)]
             sq == [i \in 1..Len(xs) |-> FMul(d[i], d[i])]
         IN  FSqrt(FDiv(FSum(sq), F(Len(xs))))

\* ------------------------------------------------------ enums and settings
StrategyTypeValues == {"threshold", "return", "quantile"}
ThresholdTypeValues == {"absolute", "percentage", "std_dev", "atr", "return"}
PositionSizingValues == {"fixed", "proportional", "normalized"}
WhichHistoryValues == {"open", "high", "low", "close"}

DEFAULT_MIN_HISTORY_LENGTH == 2
DEFAULT_EXECUTION_SIZE == F(1)
DefaultWindowHistory == 20

\* --------------------------------------------------- outcomes of a function
\* A raised exception; parameter is InvalidParametersError's 'parameter'
\* detail (the strategy type for InvalidStrategyError).
Raise(kind, parameter) == [kind |-> kind, parameter |-> parameter]
Raised(r) == r.kind \notin {"ok", "signal", "result"}

Signal(action, size, reason) ==
    [kind |-> "signal", action |-> action, size |-> size, reason |-> reason]

\* ------------------------------------------------------------------ helpers
RequiredParams ==
    <<"forecast_price", "current_price", "current_position", "available_cash",
      "initial_capital">>

\* "ok", or the InvalidParametersError raised.
_validate_common_params(params) ==
    LET missing == {i \in 1..Len(RequiredParams) : RequiredParams[i] \notin DOMAIN params}
    IN  IF missing # {}
        THEN Raise("InvalidParametersError",
                   RequiredParams[CHOOSE i \in missing : \A j \in missing : i <= j])
        ELSE IF FLe(params.forecast_price, 0)
        THEN Raise("InvalidParametersError", "forecast_price")
        ELSE IF FLe(params.current_price, 0)
        THEN Raise("InvalidParametersError", "current_price")
        ELSE IF FLt(params.current_position, 0)
        THEN Raise("InvalidParametersError", "current_position")
        ELSE IF FLt(params.available_cash, 0)
        THEN Raise("InvalidParametersError", "available_cash")
        ELSE IF FLe(params.initial_capital, 0)
        THEN Raise("InvalidParametersError", "initial_capital")
        ELSE [kind |-> "ok", parameter |-> ""]

_get_history_array(params, which_history) ==
    IF which_history = "open" THEN GetOpt(params, "open_history")
    ELSE IF which_history = "high" THEN GetOpt(params, "high_history")
    ELSE IF which_history = "low" THEN GetOpt(params, "low_history")
    ELSE GetOpt(params, "close_history")

\* np.diff(timeseries) / timeseries[:-1]
_calculate_returns(timeseries) ==
    IF Len(timeseries) < 2 THEN <<>>
    ELSE [i \in 1..(Len(timeseries) - 1) |->
             FDiv(FSub(timeseries[i + 1], timeseries[i]), timeseries[i])]

\* The loop of _calculate_atr indexes low and close with high's indices:
\* IndexError when a window of low or close is too short for them.
AtrWindowsIndexable(high, low, close) ==
    \A i \in 2..Len(high) : i <= Len(low) /\ i - 1 <= Len(close)

TrueRange(high, low, close, i) ==
    LET hl == FSub(high[i], low[i])
        hc == FAbs(FSub(high[i], close[i - 1]))
        lc == FAbs(FSub(low[i], close[i - 1]))
    IN  PyMax(PyMax(hl, hc), lc)

\* The mean of no true range is taken.
_calculate_atr_NoEmptyCheck(open_history, high_history, low_history, close_history, window_history, min_history_length) ==
    IF \/ Len(high_history) < min_history_length
       \/ Len(low_history) < min_history_length
       \/ Len(close_history) < min_history_length
    THEN [kind |-> "ok", value |-> 0]
    ELSE LET high  == LastWindow(high_history, window_history)
             low   == LastWindow(low_history, window_history)
             close == LastWindow(close_history, window_history)
         IN  IF ~AtrWindowsIndexable(high, low, close)
             THEN [kind |-> "IndexError", value |-> 0]
             ELSE [kind |-> "ok",
                   value |-> NpMean([k \in 1..(Len(high) - 1) |->
                                        TrueRange(high, low, close, k + 1)])]

\* [kind |-> "ok", value |-> atr], or the IndexError raised.
_calculate_atr(open_history, high_history, low_history, close_history, window_history, min_history_length) ==
    IF \/ Len(high_history) < min_history_length
       \/ Len(low_history) < min_history_length
       \/ Len(close_history) < min_history_length
    THEN [kind |-> "ok", value |-> 0]
    ELSE LET high  == LastWindow(high_history, window_history)
             low   == LastWindow(low_history, window_history)
             close == LastWindow(close_history, window_history)
         IN  IF ~AtrWindowsIndexable(high, low, close)
             THEN [kind |-> "IndexError", value |-> 0]
             ELSE LET tr_list == [k \in 1..(Len(high) - 1) |->
                                     TrueRange(high, low, close, k + 1)]
                  IN  IF Len(tr_list) = 0 THEN [kind |-> "ok", value |-> 0]
                      ELSE [kind |-> "ok", value |-> NpMean(tr_list)]

\* [kind |-> "ok", value |-> threshold], or the exception raised.
_calculate_threshold(threshold_type, threshold_value, open_history, high_history, low_history, close_history, which_history, window_history, min_history_length, current_price) ==
    IF threshold_type = "absolute"
    THEN [kind |-> "ok", value |-> threshold_value]
    ELSE IF threshold_type = "percentage"
    THEN [kind |-> "ok", value |-> FMul(current_price, FDiv(threshold_value, F(100)))]
    ELSE IF threshold_type = "std_dev"
    THEN LET \* _get_history_array on the dict of the four histories
             history_array ==
                 IF which_history = "open" THEN open_history
                 ELSE IF which_history = "high" THEN high_history
                 ELSE IF which_history = "low" THEN low_history
                 ELSE close_history
         IN  IF IsNone(history_array) \/ Len(Val(history_array)) < min_history_length
             THEN [kind |-> "ok", value |-> threshold_value]
             ELSE [kind |-> "ok",
                   value |-> FMul(threshold_value,
                                  NpStd(LastWindow(Val(history_array), window_history)))]
    ELSE IF threshold_type = "atr"
    THEN IF IsNone(open_history) \/ IsNone(high_history)
            \/ IsNone(low_history) \/ IsNone(close_history)
         THEN [kind |-> "ok", value |-> threshold_value]
         ELSE LET atr == _calculate_atr(Val(open_history), Val(high_history),
                                        Val(low_history), Val(close_history),
                                        window_history, min_history_length)
              IN  IF atr.kind # "ok" THEN atr
                  ELSE [kind |-> "ok", value |-> FMul(threshold_value, atr.value)]
    ELSE [kind |-> "ok", value |-> threshold_value]

\* ---------------------------------------------------------- signal generators
\* Buys below the price and sells above it.
ThresholdDecision_Swapped(threshold, price_diff, execution_size) ==
    IF threshold.kind # "ok" THEN Raise(threshold.kind, "")
    ELSE IF FLt(FAbs(price_diff), threshold.value)
    THEN Signal("hold", 0, "below threshold")
    ELSE IF FLt(price_diff, 0)
    THEN Signal("buy", execution_size, "forecast > price")
    ELSE Signal("sell", execution_size, "forecast < price")

\* The signal of calculate_threshold_signal from the computed threshold (or the
\* exception its computation raised) and the price difference.
ThresholdDecision(threshold, price_diff, execution_size) ==
    IF threshold.kind # "ok" THEN Raise(threshold.kind, "")
    ELSE IF FLt(FAbs(price_diff), threshold.value)
    THEN Signal("hold", 0, "below threshold")
    ELSE IF FGt(price_diff, 0)
    THEN Signal("buy", execution_size, "forecast > price")
    ELSE Signal("sell", execution_size, "forecast < price")

calculate_threshold_signal(params) ==
    LET forecast_price == params.forecast_price
        current_price == params.current_price
        threshold_type == Get(params, "threshold_type", "absolute")
        threshold_value == Get(params, "threshold_value", 0)
        execution_size == Get(params, "execution_size", DEFAULT_EXECUTION_SIZE)
        min_history_length == Get(params, "min_history_length", DEFAULT_MIN_HISTORY_LENGTH)
        open_history == GetOpt(params, "open_history")
        high_history == GetOpt(params, "high_history")
        low_history == GetOpt(params, "low_history")
        close_history == GetOpt(params, "close_history")
        \* ATR without all of OHLC falls back to absolute
        effective_type ==
            IF threshold_type = "atr"
               /\ (IsNone(open_history) \/ IsNone(high_history)
                   \/ IsNone(low_history) \/ IsNone(close_history))
            THEN "absolute" ELSE threshold_type
        threshold == _calculate_threshold(effective_type, threshold_value, open_history,
                         high_history, low_history, close_history,
                         Get(params, "which_history", "close"),
                         Get(params, "window_history", DefaultWindowHistory),
                         min_history_length, current_price)
    IN  IF threshold_value < 0 THEN Raise("InvalidParametersError", "threshold_value")
        ELSE IF execution_size <= 0 THEN Raise("InvalidParametersError", "execution_size")
        ELSE IF threshold_type \notin ThresholdTypeValues
        THEN Raise("InvalidParametersError", "threshold_type")
        ELSE ThresholdDecision(threshold, FSub(forecast_price, current_price), execution_size)

\* The position size of calculate_return_signal before the min/max constraints.
ReturnPositionSize(params, position_sizing, execution_size, expected_return, min_history_length) ==
    IF position_sizing = "fixed" THEN execution_size
    ELSE IF position_sizing = "proportional"
    THEN FMul(FMul(execution_size, FAbs(expected_return)), F(100))
    ELSE IF position_sizing = "normalized"
    THEN LET history_array == _get_history_array(params, Get(params, "which_history", "close"))
             window_history == Get(params, "window_history", DefaultWindowHistory)
         IN  IF IsNone(history_array) \/ Len(Val(history_array)) < min_history_length
             THEN execution_size
             ELSE LET recent_history == LastWindow(Val(history_array), window_history)
                      return_std == NpStd(_calculate_returns(recent_history))
                  IN  IF FEq(return_std, 0) THEN execution_size
                      ELSE FMul(execution_size, FDiv(FAbs(expected_return), return_std))
    ELSE execution_size

\* min and max are swapped: max_position_size is a floor, min_position_size a cap.
ApplySizeConstraints_Swapped(position_size, max_position_size, min_position_size) ==
    LET raised == IF IsNone(max_position_size) THEN position_size
                  ELSE PyMax(position_size, Val(max_position_size))
    IN  IF IsNone(min_position_size) THEN raised
        ELSE PyMin(raised, Val(min_position_size))

\* max_position_size / min_position_size applied when given.
ApplySizeConstraints(position_size, max_position_size, min_position_size) ==
    LET capped == IF IsNone(max_position_size) THEN position_size
                  ELSE PyMin(position_size, Val(max_position_size))
    IN  IF IsNone(min_position_size) THEN capped
        ELSE PyMax(capped, Val(min_position_size))

\* The band's edges trade.
ReturnAction_Inclusive(expected_return, threshold_value) ==
    IF FGe(expected_return, threshold_value) THEN "buy"
    ELSE IF FLe(expected_return, FNeg(threshold_value)) THEN "sell"
    ELSE "hold"

\* Buy above the threshold, sell below its negative, hold in the band.
ReturnAction(expected_return, threshold_value) ==
    IF FGt(expected_return, threshold_value) THEN "buy"
    ELSE IF FLt(expected_return, FNeg(threshold_value)) THEN "sell"
    ELSE "hold"

calculate_return_signal(params) ==
    LET forecast_price == params.forecast_price
        current_price == params.current_price
        position_sizing == Get(params, "position_sizing", "fixed")
        threshold_value == Get(params, "threshold_value", 0)
        execution_size == Get(params, "execution_size", DEFAULT_EXECUTION_SIZE)
        max_position_size == GetOpt(params, "max_position_size")
        min_position_size == GetOpt(params, "min_position_size")
        min_history_length == Get(params, "min_history_length", DEFAULT_MIN_HISTORY_LENGTH)
        expected_return == FDiv(FSub(forecast_price, current_price), current_price)
        action == ReturnAction(expected_return, threshold_value)
        position_size == ReturnPositionSize(params, position_sizing, execution_size,
                                            expected_return, min_history_length)
    IN  IF threshold_value < 0 THEN Raise("InvalidParametersError", "threshold_value")
        ELSE IF execution_size <= 0 THEN Raise("InvalidParametersError", "execution_size")
        ELSE IF position_sizing \notin PositionSizingValues
        THEN Raise("InvalidParametersError", "position_sizing")
        ELSE IF ~IsNone(max_position_size) /\ ~IsNone(min_position_size)
                /\ Val(max_position_size) < Val(min_position_size)
        THEN Raise("InvalidParametersError", "position_size_constraints")
        ELSE IF action = "hold" THEN Signal("hold", 0, "within threshold")
        ELSE Signal(action,
                    ApplySizeConstraints(position_size, max_position_size, min_position_size),
                    "expected return")

\* One entry of quantile_signals is well formed: the three keys, a range
\* [min, max] with 0 <= min < max <= 100, a known signal, a multiplier in [0, 1].
QuantileConfigValid(signal_config) ==
    /\ {"range", "signal", "multiplier"} \subseteq DOMAIN signal_config
    /\ Len(signal_config.range) = 2
    /\ ~(\/ signal_config.range[1] < 0
         \/ signal_config.range[2] > F(100)
         \/ signal_config.range[1] >= signal_config.range[2])
    /\ signal_config.signal \in {"buy", "sell", "hold"}
    /\ ~(signal_config.multiplier < 0 \/ signal_config.multiplier > F(1))

\* The last entry whose range holds the percentile wins.
MatchedIndex_Last(quantile_signals, percentile) ==
    LET hits == {i \in 1..Len(quantile_signals) :
                    /\ FLe(quantile_signals[i].range[1], percentile)
                    /\ FLt(percentile, quantile_signals[i].range[2])}
    IN  IF hits = {} THEN 0 ELSE CHOOSE i \in hits : \A j \in hits : i >= j

\* The first entry, in the dict's order, whose range holds the percentile
\* (0 when there is none).
MatchedIndex(quantile_signals, percentile) ==
    LET hits == {i \in 1..Len(quantile_signals) :
                    /\ FLe(quantile_signals[i].range[1], percentile)
                    /\ FLt(percentile, quantile_signals[i].range[2])}
    IN  IF hits = {} THEN 0 ELSE CHOOSE i \in hits : \A j \in hits : i <= j

\* The rank as a fraction of 1, not of 100.
Percentile_Fraction(recent_history, forecast_price) ==
    LET below == Cardinality({i \in 1..Len(recent_history) :
                                 FLt(recent_history[i], forecast_price)})
    IN  FDiv(F(below), F(Len(recent_history)))

\* Values equal to the forecast count as below it.
Percentile_Inclusive(recent_history, forecast_price) ==
    LET below == Cardinality({i \in 1..Len(recent_history) :
                                 FLe(recent_history[i], forecast_price)})
    IN  FMul(FDiv(F(below), F(Len(recent_history))), F(100))

\* np.sum(recent_history < forecast_price) / len(recent_history) * 100
Percentile(recent_history, forecast_price) ==
    LET below == Cardinality({i \in 1..Len(recent_history) :
                                 FLt(recent_history[i], forecast_price)})
    IN  FMul(FDiv(F(below), F(Len(recent_history))), F(100))

\* quantile_signals is the sequence of the dict's values in its order.
calculate_quantile_signal(params) ==
    LET forecast_price == params.forecast_price
        current_price == params.current_price
        current_position == params.current_position
        available_cash == params.available_cash
        which_history == Get(params, "which_history", "close")
        window_history == GetOpt(params, "window_history")
        quantile_signals == GetOpt(params, "quantile_signals")
        position_sizing == Get(params, "position_sizing", "fixed")
        max_position_size == GetOpt(params, "max_position_size")
        min_position_size == GetOpt(params, "min_position_size")
        min_history_length == Get(params, "min_history_length", DEFAULT_MIN_HISTORY_LENGTH)
        history_array == _get_history_array(params, which_history)
        recent_history == LastWindow(Val(history_array), Val(window_history))
        percentile == Percentile(recent_history, forecast_price)
        matched == MatchedIndex(Val(quantile_signals), percentile)
        matched_signal == Val(quantile_signals)[matched]
        multiplier == matched_signal.multiplier
        base_size == FMul(FDiv(available_cash, current_price), multiplier)
        return_std == NpStd(_calculate_returns(recent_history))
        expected_return == FDiv(FSub(forecast_price, current_price), current_price)
        buy_size == IF position_sizing = "normalized" /\ FGt(return_std, 0)
                    THEN FMul(base_size, FDiv(FAbs(expected_return), return_std))
                    ELSE base_size
        position_size == IF matched_signal.signal = "buy" THEN buy_size
                         ELSE FMul(current_position, multiplier)
    IN  IF IsNone(window_history) \/ Val(window_history) <= 0
        THEN Raise("InvalidParametersError", "window_history")
        ELSE IF IsNone(quantile_signals)
        THEN Raise("InvalidParametersError", "quantile_signals")
        ELSE IF \E i \in 1..Len(Val(quantile_signals)) :
                    ~QuantileConfigValid(Val(quantile_signals)[i])
        THEN Raise("InvalidParametersError", "quantile_signals")
        ELSE IF which_history \notin WhichHistoryValues
        THEN Raise("InvalidParametersError", "which_history")
        ELSE IF \/ IsNone(GetOpt(params, "open_history"))
                \/ IsNone(GetOpt(params, "high_history"))
                \/ IsNone(GetOpt(params, "low_history"))
                \/ IsNone(GetOpt(params, "close_history"))
        THEN Raise("InvalidParametersError", "ohlc_history")
        ELSE IF Len(recent_history) < min_history_length
        THEN Signal("hold", 0, "insufficient history")
        ELSE IF matched = 0 THEN Signal("hold", 0, "no matching range")
        ELSE IF matched_signal.signal = "hold" THEN Signal("hold", 0, "signal is hold")
        ELSE Signal(matched_signal.signal,
                    ApplySizeConstraints(position_size, max_position_size, min_position_size),
                    "percentile in range")

\* str(strategy_type).lower()
Lower(strategy_type) ==
    IF strategy_type = "THRESHOLD" THEN "threshold"
    ELSE IF strategy_type = "Return" THEN "return"
    ELSE strategy_type

\* An unknown strategy falls back to the threshold strategy.
generate_trading_signal_Fallback(params) ==
    LET strategy_type == Lower(Get(params, "strategy_type", "threshold"))
    IN  IF strategy_type = "return" THEN calculate_return_signal(params)
        ELSE IF strategy_type = "quantile" THEN calculate_quantile_signal(params)
        ELSE calculate_threshold_signal(params)

generate_trading_signal(params) ==
    LET strategy_type == Lower(Get(params, "strategy_type", "threshold"))
    IN  IF strategy_type = "threshold" THEN calculate_threshold_signal(params)
        ELSE IF strategy_type = "return" THEN calculate_return_signal(params)
        ELSE IF strategy_type = "quantile" THEN calculate_quantile_signal(params)
        ELSE Raise("InvalidStrategyError", strategy_type)

\* ------------------------------------------------------------ execution engine
\* What a call gives back: a result dict (kind "result") or a raised exception;
\* signal is the generated signal's action, "none" when no generator ran.
Result(action, size, value, reason, available_cash, position_after, stopped, signal, signal_size) ==
    [kind |-> "result", parameter |-> "", action |-> action, size |-> size,
     value |-> value, reason |-> reason, available_cash |-> available_cash,
     position_after |-> position_after, stopped |-> stopped,
     signal |-> signal, signal_size |-> signal_size]

Exception(kind, parameter, signal) ==
    [kind |-> kind, parameter |-> parameter, action |-> "", size |-> 0, value |-> 0,
     reason |-> <<>>, available_cash |-> 0, position_after |-> 0, stopped |-> FALSE,
     signal |-> signal, signal_size |-> 0]

\* The entry guard that lets a call with no cash and no position through.
AlreadyStopped_Strict(available_cash, current_position) ==
    FLe(available_cash, 0) /\ FLt(current_position, 0)

\* The entry guard: no cash and no position.
AlreadyStopped(available_cash, current_position) ==
    FLe(available_cash, 0) /\ FLe(current_position, 0)

\* A trade of size 0 executes.
CannotTrade_Strict(actual_size) == FLt(actual_size, 0)

\* The trade cannot execute: nothing affordable, or nothing to sell.
CannotTrade(actual_size) == FLe(actual_size, 0)

\* Cash or position used up stops the strategy.
TradeStopped_Either(new_cash, new_position) == FLe(new_cash, 0) \/ FLe(new_position, 0)

\* Capital of exactly 0 after a trade does not stop the strategy.
TradeStopped_Strict(new_cash, new_position) == FLt(new_cash, 0) /\ FLt(new_position, 0)

\* After a trade: capital exhausted.
TradeStopped(new_cash, new_position) == FLe(new_cash, 0) /\ FLe(new_position, 0)

\* The trade of a buy (sign 1) or sell (sign -1) signal, or its degraded hold.
ExecuteTrade(signal, available_cash, current_position, current_price) ==
    LET max_affordable == FDiv(available_cash, current_price)
        desired_size == signal.size
        actual_size == IF signal.action = "buy" THEN PyMin(desired_size, max_affordable)
                       ELSE PyMin(desired_size, current_position)
        trade_value == FMul(actual_size, current_price)
        new_cash == IF signal.action = "buy" THEN FSub(available_cash, trade_value)
                    ELSE FAdd(available_cash, trade_value)
        new_position == IF signal.action = "buy" THEN FAdd(current_position, actual_size)
                        ELSE FSub(current_position, actual_size)
        stopped == TradeStopped(new_cash, new_position)
    IN  IF CannotTrade(actual_size)
        THEN Result("hold", 0, 0,
                    <<IF signal.action = "buy" THEN "Insufficient cash to buy"
                      ELSE "No position to sell">>,
                    available_cash, current_position, FALSE, signal.action, signal.size)
        ELSE Result(signal.action, actual_size, trade_value,
                    IF stopped THEN <<signal.reason, "capital exhausted">>
                    ELSE <<signal.reason>>,
                    new_cash, new_position, stopped, signal.action, signal.size)

\* What execute_trading_signal does with the generated signal.
ExecuteSignal(params, signal) ==
    IF Raised(signal) THEN Exception(signal.kind, signal.parameter, "raised")
    ELSE IF signal.action = "hold"
    THEN Result("hold", 0, 0, <<signal.reason>>, params.available_cash,
                params.current_position, FALSE, "hold", signal.size)
    ELSE ExecuteTrade(signal, params.available_cash, params.current_position,
                      params.current_price)

\* The entry guard answers before validation does.
ExecuteValidated_GuardFirst(params, valid) ==
    IF /\ {"available_cash", "current_position"} \subseteq DOMAIN params
       /\ AlreadyStopped(params.available_cash, params.current_position)
    THEN Result("hold", 0, 0, <<"Strategy stopped: no capital remaining">>,
                0, 0, TRUE, "none", 0)
    ELSE IF Raised(valid) THEN Exception(valid.kind, valid.parameter, "none")
    ELSE ExecuteSignal(params, generate_trading_signal(params))

\* What execute_trading_signal does once validation has answered.
ExecuteValidated(params, valid) ==
    IF Raised(valid) THEN Exception(valid.kind, valid.parameter, "none")
    ELSE IF AlreadyStopped(params.available_cash, params.current_position)
    THEN Result("hold", 0, 0, <<"Strategy stopped: no capital remaining">>,
                0, 0, TRUE, "none", 0)
    ELSE ExecuteSignal(params, generate_trading_signal(params))

execute_trading_signal(params) ==
    ExecuteValidated(params, _validate_common_params(params))

\* The position is not valued at the price.
get_portfolio_value_Unpriced(current_position, current_price, available_cash) ==
    FAdd(available_cash, current_position)

get_portfolio_value(current_position, current_price, available_cash) ==
    FAdd(available_cash, FMul(current_position, current_price))

get_portfolio_return(current_position, current_price, available_cash, initial_capital) ==
    IF initial_capital = 0 THEN 0
    ELSE FDiv(FSub(get_portfolio_value(current_position, current_price, available_cash),
                   initial_capital),
              initial_capital)

\* ------------------------------------------------------------ the API layer
\* QuantileSignalConfig: the three fields, multiplier in [0, 1] and
\* validate_range.
QuantileSignalConfig(config) ==
    /\ {"range", "signal", "multiplier"} \subseteq DOMAIN config
    /\ Len(config.range) = 2
    /\ ~(config.range[1] < 0 \/ config.range[2] > F(100))
    /\ ~(config.range[1] >= config.range[2])
    /\ config.signal \in {"buy", "sell", "hold"}
    /\ FGe(config.multiplier, 0) /\ FLe(config.multiplier, F(1))

\* The fields of BaseStrategyRequest: the first that fails, "" when none does.
BaseStrategyRequest(body) ==
    IF "forecast_price" \notin DOMAIN body \/ ~FGt(body.forecast_price, 0)
    THEN "forecast_price"
    ELSE IF "current_price" \notin DOMAIN body \/ ~FGt(body.current_price, 0)
    THEN "current_price"
    ELSE IF "current_position" \notin DOMAIN body \/ ~FGe(body.current_position, 0)
    THEN "current_position"
    ELSE IF "available_cash" \notin DOMAIN body \/ ~FGe(body.available_cash, 0)
    THEN "available_cash"
    ELSE IF "initial_capital" \notin DOMAIN body \/ ~FGt(body.initial_capital, 0)
    THEN "initial_capital"
    ELSE ""

\* An Optional field with a gt=0 constraint: absent, or positive.
OptionalPositive(body, key) == key \notin DOMAIN body \/ FGt(body[key], 0)

\* The validation of a body as a QuantileStrategyRequest: the field (or model
\* validator) that fails first, "" when the body is accepted.
QuantileStrategyRequest(body) ==
    IF BaseStrategyRequest(body) # "" THEN BaseStrategyRequest(body)
    ELSE IF Get(body, "which_history", "") \notin WhichHistoryValues THEN "which_history"
    ELSE IF Get(body, "window_history", 0) <= 0 THEN "window_history"
    ELSE IF "quantile_signals" \notin DOMAIN body THEN "quantile_signals"
    ELSE IF \E i \in 1..Len(body.quantile_signals) :
                ~QuantileSignalConfig(body.quantile_signals[i])
    THEN "quantile_signals"
    ELSE IF Get(body, "position_sizing", "fixed") \notin {"fixed", "normalized"}
    THEN "position_sizing"
    ELSE IF ~OptionalPositive(body, "execution_size") THEN "execution_size"
    ELSE IF ~OptionalPositive(body, "max_position_size") THEN "max_position_size"
    ELSE IF ~OptionalPositive(body, "min_position_size") THEN "min_position_size"
    ELSE IF Get(body, "min_history_length", 2) <= 0 THEN "min_history_length"
    ELSE IF ~({"open_history", "high_history", "low_history", "close_history"}
                 \subseteq DOMAIN body)
    THEN "ohlc_history"
    ELSE IF Cardinality({Len(body.open_history), Len(body.high_history),
                         Len(body.low_history), Len(body.close_history)}) > 1
    THEN "validate_ohlc_lengths"
    ELSE IF /\ "max_position_size" \in DOMAIN body
            /\ "min_position_size" \in DOMAIN body
            /\ FLt(body.max_position_size, body.min_position_size)
    THEN "validate_position_size_constraints"
    ELSE ""

\* model_dump(exclude_none=True) of an accepted quantile request: the body
\* with the schema's defaults filled in.
model_dump(body) ==
    body @@ [strategy_type |-> "quantile", position_sizing |-> "fixed",
             execution_size |-> DEFAULT_EXECUTION_SIZE,
             min_history_length |-> DEFAULT_MIN_HISTORY_LENGTH]

\* POST /trading/execute with a quantile body: the 422 of a body the schema
\* rejects, else what the engine gives back for the dumped request.
execute_strategy(body) ==
    IF QuantileStrategyRequest(body) # ""
    THEN Exception("RequestValidationError", QuantileStrategyRequest(body), "none")
    ELSE execute_trading_signal(model_dump(body))

\* ------------------------------------------------------------- the requests
\* Values the orchestrator and its callers put in requests.
Forecasts == {F(4), F(5), F(6)}
Prices == {F(2), F(5)}
InitialCash == {0, F(3)}
\* The smallest positive number of the format.
Tiny == F(1) \div Scale
InitialPosition == {0, F(2), Tiny}
InitialCapital == F(8)

\* The literal 0.2 of the format.
OneFifth == FDiv(F(1), F(5))

\* OHLC histories: none, three equal-length periods, one period, only close,
\* and low one period shorter than the others.
NoKeys == [k \in {} |-> 0]
Histories ==
    << NoKeys,
       [open_history  |-> <<F(4), F(5), F(5)>>, high_history  |-> <<F(5), F(6), F(7)>>,
        low_history   |-> <<F(3), F(4), F(5)>>, close_history |-> <<F(4), F(5), F(6)>>],
       [open_history  |-> <<F(5)>>, high_history  |-> <<F(6)>>,
        low_history   |-> <<F(4)>>, close_history |-> <<F(5)>>],
       [close_history |-> <<F(4), F(4), F(6)>>],
       [open_history  |-> <<F(4), F(5), F(5)>>, high_history  |-> <<F(5), F(6), F(7)>>,
        low_history   |-> <<F(3), F(4)>>, close_history |-> <<F(4), F(5), F(6)>>] >>

\* A key given when the option holds a value, absent when it is None.
OptKey(key, option) == IF IsNone(option) THEN NoKeys ELSE key :> Val(option)

\* cash, position: what the orchestrator holds; calls: calls made; last: what
\* the last result said ("none", "active", "stopped"); pc: "idle" between
\* calls, "done" when a call has returned; req, out: that call's request and
\* its outcome; summary: the closing valuation of the portfolio, once made
\* (pc "closed").  chronos, timesfm: the module-level state of the two
\* forecasting model services and where each calling thread stands in them.
VARIABLES cash, position, calls, last, pc, req, out, summary, chronos, timesfm

vars == <<cash, position, calls, last, pc, req, out, summary, chronos, timesfm>>

\* The trading engine's side, and the model services' side.
trading == <<cash, position, calls, last, pc, req, out, summary>>
services == <<chronos, timesfm>>

\* The fields every request carries; position and cash are the orchestrator's.
Common(strategy_type, forecast_price, current_price) ==
    [strategy_type |-> strategy_type, forecast_price |-> forecast_price,
     current_price |-> current_price, current_position |-> position,
     available_cash |-> cash, initial_capital |-> InitialCapital]

NoOutcome == Exception("none", "", "none")

NoSummary == <<>>

\* The TimesFM service module as imported.
TimesfmImported ==
    [_model_status |-> "uninitialized", _forecaster_instance |-> None,
     _model_wrapper |-> None, _error_message |-> None,
     pc |-> [t \in 1..TimesfmThreads |-> "idle"],
     returned |-> [t \in 1..TimesfmThreads |-> "none"]]

\* The Chronos service module as imported: no pipeline, every thread outside
\* its functions.
ChronosImported ==
    [_model_status |-> "uninitialized", _pipeline |-> None, _error_message |-> None,
     _model_variant |-> None,
     pc |-> [t \in 1..ChronosThreads |-> "idle"],
     model_variant |-> [t \in 1..ChronosThreads |-> None],
     returned |-> [t \in 1..ChronosThreads |-> "none"]]

Init ==
    /\ cash \in InitialCash
    /\ position \in InitialPosition
    /\ calls = 0
    /\ last = "none"
    /\ pc = "idle"
    /\ req = NoKeys
    /\ out = NoOutcome
    /\ summary = NoSummary
    /\ chronos = ChronosImported
    /\ timesfm = TimesfmImported

\* One call of execute_trading_signal with the request params.
\* The orchestrator is between calls and may make another.
CanCall == pc = "idle" /\ calls < MaxCalls

\* The engine remembers that the strategy stopped.
Call_Remembering(params) ==
    /\ CanCall
    /\ req' = params
    /\ out' = IF last = "stopped"
              THEN Result("hold", 0, 0, <<"Strategy stopped: no capital remaining">>,
                          0, 0, TRUE, "none", 0)
              ELSE execute_trading_signal(params)
    /\ pc' = "done"
    /\ calls' = calls + 1
    /\ UNCHANGED <<cash, position, last, summary, services>>

Call(params) ==
    /\ CanCall
    /\ req' = params
    /\ out' = execute_trading_signal(params)
    /\ pc' = "done"
    /\ calls' = calls + 1
    /\ UNCHANGED <<cash, position, last, summary, services>>

\* History, window and minimum length matter to the std_dev and atr thresholds
\* only: the other types are called without them or with the full history.
\* The atr threshold is also called with a multiplier of 2.
CallThreshold ==
    /\ CanCall
    /\ \E forecast_price \in Forecasts, current_price \in Prices,
          threshold_type \in {None} \cup {Some(t) : t \in ThresholdTypeValues},
          execution_size \in {None, Some(F(4))} :
         \E threshold_value \in {None, Some(0), Some(F(1))}
                \cup (IF threshold_type = Some("atr") THEN {Some(F(2))} ELSE {}),
            h \in IF threshold_type \in {Some("std_dev"), Some("atr")}
                  THEN 1..Len(Histories) ELSE {1, 2},
            window_history \in IF threshold_type \in {Some("std_dev"), Some("atr")}
                               THEN {None, Some(1)} ELSE {None},
            min_history_length \in IF threshold_type \in {Some("std_dev"), Some("atr")}
                                   THEN {None, Some(1)} ELSE {None} :
           Call(Common("threshold", forecast_price, current_price)
                @@ OptKey("threshold_type", threshold_type)
                @@ OptKey("threshold_value", threshold_value)
                @@ OptKey("execution_size", execution_size)
                @@ Histories[h]
                @@ OptKey("window_history", window_history)
                @@ OptKey("min_history_length", min_history_length))

\* Threshold requests the generator rejects: a negative threshold_value, an
\* execution_size of 0, an unknown threshold_type.
CallThresholdRejected ==
    /\ CanCall
    /\ \E forecast_price \in Forecasts,
          threshold_type \in {None, Some("invalid_type"), Some("atr")},
          threshold_value \in {None, Some(0), Some(F(-1))},
          execution_size \in {None, Some(0)} :
           /\ \/ threshold_type = Some("invalid_type")
              \/ threshold_value = Some(F(-1))
              \/ execution_size = Some(0)
           /\ Call(Common("threshold", forecast_price, F(5))
                   @@ OptKey("threshold_type", threshold_type)
                   @@ OptKey("threshold_value", threshold_value)
                   @@ OptKey("execution_size", execution_size))

\* History and window matter to normalized sizing only.  A max_position_size
\* of 2 with a min_position_size of 3 is rejected.
CallReturn ==
    /\ CanCall
    /\ \E forecast_price \in Forecasts, current_price \in Prices,
          position_sizing \in {None} \cup {Some(t) : t \in PositionSizingValues},
          threshold_value \in {None, Some(OneFifth)},
          execution_size \in {None, Some(F(4))},
          max_position_size \in {None, Some(F(2))},
          min_position_size \in {None, Some(F(3))} :
         \E h \in IF position_sizing = Some("normalized") THEN 1..Len(Histories) ELSE {1},
            window_history \in IF position_sizing = Some("normalized")
                               THEN {None, Some(1)} ELSE {None} :
           Call(Common("return", forecast_price, current_price)
                @@ OptKey("position_sizing", position_sizing)
                @@ OptKey("threshold_value", threshold_value)
                @@ OptKey("execution_size", execution_size)
                @@ OptKey("max_position_size", max_position_size)
                @@ OptKey("min_position_size", min_position_size)
                @@ Histories[h]
                @@ OptKey("window_history", window_history))

\* Return requests the generator rejects: a negative threshold_value, an
\* execution_size of 0, an unknown position_sizing.
CallReturnRejected ==
    /\ CanCall
    /\ \E forecast_price \in Forecasts,
          position_sizing \in {None, Some("invalid")},
          threshold_value \in {None, Some(F(-1))},
          execution_size \in {None, Some(0)} :
           /\ \/ position_sizing = Some("invalid")
              \/ threshold_value = Some(F(-1))
              \/ execution_size = Some(0)
           /\ Call(Common("return", forecast_price, F(5))
                   @@ OptKey("position_sizing", position_sizing)
                   @@ OptKey("threshold_value", threshold_value)
                   @@ OptKey("execution_size", execution_size))

\* quantile_signals dicts, as the sequences of their values: two adjacent
\* ranges, two overlapping ranges, the top range alone, a buy with multiplier
\* 0, and two malformed ones (a missing key, a range with min >= max).
QuantileSignalSets ==
    << << [range |-> <<0, F(50)>>, signal |-> "sell", multiplier |-> F(1)],
          [range |-> <<F(50), F(100)>>, signal |-> "buy", multiplier |-> FDiv(F(1), F(2))] >>,
       << [range |-> <<0, F(100)>>, signal |-> "hold", multiplier |-> 0],
          [range |-> <<F(50), F(100)>>, signal |-> "buy", multiplier |-> F(1)] >>,
       << [range |-> <<F(95), F(100)>>, signal |-> "buy", multiplier |-> F(1)] >>,
       << [range |-> <<0, F(100)>>, signal |-> "buy", multiplier |-> 0] >>,
       << [range |-> <<0, F(100)>>, signal |-> "buy"] >>,
       << [range |-> <<F(50), F(50)>>, signal |-> "sell", multiplier |-> F(1)] >> >>

\* The well-formed dicts (a max_position_size below min_position_size is
\* accepted here), over the close history (full or one period) or the
\* low history (full or one period shorter than the others).
CallQuantile ==
    /\ CanCall
    /\ \E forecast_price \in Forecasts, current_price \in Prices,
          q \in 1..4,
          which_history \in {None, Some("low")},
          window_history \in {Some(2), Some(20)},
          position_sizing \in {None, Some("normalized")},
          size_limits \in {<<None, None>>, <<Some(F(1)), None>>, <<None, Some(F(3))>>,
                            <<Some(F(1)), Some(F(3))>>} :
         \E h \in IF IsNone(which_history) THEN {2, 3} ELSE {2, 5} :
           Call(Common("quantile", forecast_price, current_price)
                @@ [quantile_signals |-> QuantileSignalSets[q]]
                @@ OptKey("which_history", which_history)
                @@ OptKey("window_history", window_history)
                @@ OptKey("position_sizing", position_sizing)
                @@ OptKey("max_position_size", size_limits[1])
                @@ OptKey("min_position_size", size_limits[2])
                @@ Histories[h])

\* Quantile requests the generator rejects: no or a non-positive window, no
\* or a malformed quantile_signals, an unknown which_history, OHLC histories
\* missing.
CallQuantileRejected ==
    /\ CanCall
    /\ \E forecast_price \in {F(5)}, current_price \in {F(5)},
          q \in {None, Some(1), Some(5), Some(6)},
          which_history \in {None, Some("volume")},
          window_history \in {None, Some(0), Some(2)},
          h \in {1, 2, 4} :
           /\ \/ q # Some(1) \/ which_history # None \/ window_history # Some(2)
              \/ h # 2
           /\ Call(Common("quantile", forecast_price, current_price)
                   @@ (IF IsNone(q) THEN NoKeys
                       ELSE [quantile_signals |-> QuantileSignalSets[Val(q)]])
                   @@ OptKey("which_history", which_history)
                   @@ OptKey("window_history", window_history)
                   @@ Histories[h])

\* A strategy_type that is no strategy, in any portfolio state.
CallUnknownStrategy ==
    /\ CanCall
    /\ \E forecast_price \in Forecasts, current_price \in Prices,
          strategy_type \in {"momentum", ""} :
           Call(Common(strategy_type, forecast_price, current_price))

\* strategy_type in another case, or absent (the threshold strategy).
CallNormalizedStrategy ==
    /\ CanCall
    /\ \E forecast_price \in Forecasts, current_price \in Prices,
          strategy_type \in {None, Some("THRESHOLD"), Some("Return")} :
           Call([k \in DOMAIN Common("", forecast_price, current_price) \ {"strategy_type"}
                    |-> Common("", forecast_price, current_price)[k]]
                @@ OptKey("strategy_type", strategy_type))

\* Prices near the bottom of the format's range, where a trade's value
\* underflows: the threshold strategy with its defaults.
CallAtTinyPrices ==
    /\ CanCall
    /\ \E forecast_price \in {Tiny, 3 * Tiny} :
           Call(Common("threshold", forecast_price, 2 * Tiny))

\* Requests the common validator rejects: some required fields missing, some
\* out of range (with the value bad), for a known and an unknown strategy.
OutOfRange(key, value) ==
    IF key \in {"current_position", "available_cash"} THEN FLt(value, 0) ELSE FLe(value, 0)

CallInvalid ==
    /\ CanCall
    /\ \E forecast_price \in {F(6)}, current_price \in {F(5)},
          strategy_type \in {"threshold", "momentum"},
          missing \in SUBSET {RequiredParams[i] : i \in 1..Len(RequiredParams)},
          wrong \in SUBSET {RequiredParams[i] : i \in 1..Len(RequiredParams)},
          bad \in {0, F(-1)} :
           /\ Cardinality(missing) <= 1
           /\ Cardinality(wrong) <= 2
           /\ missing \cup wrong # {}
           /\ \A k \in wrong : OutOfRange(k, bad)
           /\ Call([k \in DOMAIN Common(strategy_type, forecast_price, current_price) \ missing
                       |-> IF k \in wrong THEN bad
                           ELSE Common(strategy_type, forecast_price, current_price)[k]])

\* The orchestrator takes the outcome: a result's cash and position are the
\* next call's; an exception leaves its state as it was.
FeedBack ==
    /\ pc = "done"
    /\ pc' = "idle"
    /\ IF out.kind = "result"
       THEN /\ cash' = out.available_cash
            /\ position' = out.position_after
            /\ last' = IF out.stopped THEN "stopped" ELSE "active"
       ELSE UNCHANGED <<cash, position, last>>
    /\ req' = NoKeys
    /\ out' = NoOutcome
    /\ UNCHANGED <<calls, summary, services>>

\* The orchestrator closes with a valuation of what it holds at a price.
PortfolioSummary ==
    /\ pc = "idle"
    /\ pc' = "closed"
    /\ \E current_price \in Prices :
           summary' = [current_price |-> current_price,
                       portfolio_value |->
                           get_portfolio_value(position, current_price, cash),
                       portfolio_return |->
                           get_portfolio_return(position, current_price, cash,
                                                InitialCapital)]
    /\ UNCHANGED <<cash, position, calls, last, req, out, services>>

\* A quantile request posted to the API with the orchestrator's cash and
\* position: each quantile_signals dict, with and without which_history, a
\* window of 2 or 0, equal-length histories, low one period short, or none.
PostQuantile ==
    /\ CanCall
    /\ \E forecast_price \in Forecasts, current_price \in Prices,
          q \in 1..Len(QuantileSignalSets),
          which_history \in {None, Some("close")},
          window_history \in {Some(0), Some(2)},
          h \in {1, 2, 5} :
           /\ req' = [k \in DOMAIN Common("", forecast_price, current_price)
                             \ {"strategy_type"}
                         |-> Common("", forecast_price, current_price)[k]]
                      @@ [quantile_signals |-> QuantileSignalSets[q]]
                      @@ OptKey("which_history", which_history)
                      @@ OptKey("window_history", window_history)
                      @@ Histories[h]
           /\ out' = execute_strategy(req')
           /\ pc' = "done"
           /\ calls' = calls + 1
           /\ UNCHANGED <<cash, position, last, summary, services>>

Next ==
    \/ CallThreshold
    \/ CallThresholdRejected
    \/ CallReturn
    \/ CallReturnRejected
    \/ CallQuantile
    \/ CallQuantileRejected
    \/ CallUnknownStrategy
    \/ CallNormalizedStrategy
    \/ CallInvalid
    \/ CallAtTinyPrices
    \/ FeedBack
    \/ PortfolioSummary

Spec == Init /\ [][Next]_vars

\* Price series handed to a helper: up to MaxSeries values, a zero and a
\* negative one among them.
SeriesOfLen(n) == [1..n -> {F(-1), 0, F(4), F(6)}]

Timeseries == UNION {SeriesOfLen(n) : n \in 0..MaxSeries}

\* _calculate_returns applied to a series on its own, as its unit tests do:
\* the outcome is the array it returns.
CalculateReturns ==
    /\ CanCall
    /\ \E timeseries \in Timeseries :
           /\ req' = [timeseries |-> timeseries]
           /\ out' = [kind |-> "returns", value |-> _calculate_returns(timeseries)]
    /\ pc' = "done"
    /\ calls' = calls + 1
    /\ UNCHANGED <<cash, position, last, summary, services>>

NextHelpers ==
    \/ CalculateReturns
    \/ FeedBack

SpecHelpers == Init /\ [][NextHelpers]_vars

\* The orchestrator trading through the API.
NextApi ==
    \/ PostQuantile
    \/ FeedBack

SpecApi == Init /\ [][NextApi]_vars

\* ------------------------------------------------- the Chronos model service
\* The trading side at rest while the model services run.
TradingAtRest ==
    /\ cash = 0
    /\ position = 0
    /\ calls = 0
    /\ last = "none"
    /\ pc = "idle"
    /\ req = NoKeys
    /\ out = NoOutcome
    /\ summary = NoSummary

InitServices ==
    /\ TradingAtRest
    /\ chronos = ChronosImported
    /\ timesfm = TimesfmImported

\* Thread t leaves the function it is in with what it returns or raises.
ChronosReturn(state, t, returned) ==
    [state EXCEPT !.pc[t] = "idle", !.model_variant[t] = None, !.returned[t] = returned]

\* initialize_model, its first locked block: return when ready, raise when
\* another initialization is marked, else mark this one.
ChronosInitialize(t) ==
    /\ chronos.pc[t] = "idle"
    /\ \E model_variant \in {None, Some(""), Some("amazon/chronos-t5-tiny")} :
           chronos' =
               IF chronos._model_status = "ready"
               THEN ChronosReturn(chronos, t, "None")
               ELSE IF chronos._model_status = "initializing"
               THEN ChronosReturn(chronos, t, "ModelInitializationError")
               ELSE [chronos EXCEPT !._model_status = "initializing",
                                    !._error_message = None,
                                    !.pc[t] = "variant",
                                    !.model_variant[t] = model_variant]
    /\ UNCHANGED <<trading, timesfm>>

\* initialize_model resolving the variant: the MODEL_VARIANT environment
\* variable (set or not) stands in for None, and no variant raises ValueError.
ChronosResolveVariant(t) ==
    /\ chronos.pc[t] = "variant"
    /\ \E env \in {None, Some("amazon/chronos-t5-small")} :
           LET model_variant == IF IsNone(chronos.model_variant[t]) THEN env
                                ELSE chronos.model_variant[t]
           IN  chronos' =
                   IF IsNone(model_variant) \/ model_variant = Some("")
                   THEN ChronosReturn(chronos, t, "ValueError")
                   ELSE [chronos EXCEPT !.pc[t] = "from_pretrained",
                                        !.model_variant[t] = model_variant]
    /\ UNCHANGED <<trading, timesfm>>

\* ChronosPipeline.from_pretrained loads the pipeline or raises.
ChronosFromPretrained(t) ==
    /\ chronos.pc[t] = "from_pretrained"
    /\ \E loaded \in BOOLEAN :
           chronos' = [chronos EXCEPT !.pc[t] = IF loaded THEN "loaded" ELSE "failed"]
    /\ UNCHANGED <<trading, timesfm>>

\* initialize_model, the locked block after a load.
ChronosSetReady(t) ==
    /\ chronos.pc[t] = "loaded"
    /\ chronos' = ChronosReturn([chronos EXCEPT !._pipeline = Some("pipeline"),
                                                !._model_variant = chronos.model_variant[t],
                                                !._model_status = "ready"],
                                t, "None")
    /\ UNCHANGED <<trading, timesfm>>

\* initialize_model, the locked block of the except clause.
ChronosSetError(t) ==
    /\ chronos.pc[t] = "failed"
    /\ chronos' = ChronosReturn([chronos EXCEPT !._model_status = "error",
                                                !._error_message = Some("message"),
                                                !._pipeline = None],
                                t, "ModelInitializationError")
    /\ UNCHANGED <<trading, timesfm>>

\* run_inference, its locked check; the prediction then runs on the pipeline
\* reference it took.
ChronosRunInference(t) ==
    /\ chronos.pc[t] = "idle"
    /\ chronos' =
           IF chronos._model_status # "ready" \/ IsNone(chronos._pipeline)
           THEN ChronosReturn(chronos, t, "ModelNotInitializedError")
           ELSE [chronos EXCEPT !.pc[t] = "predict"]
    /\ UNCHANGED <<trading, timesfm>>

\* pipeline.predict and the statistics: the result dict, or the exception
\* re-raised.
ChronosPredict(t) ==
    /\ chronos.pc[t] = "predict"
    /\ \E returned \in {"forecast", "Exception"} :
           chronos' = ChronosReturn(chronos, t, returned)
    /\ UNCHANGED <<trading, timesfm>>

\* shutdown_model, one locked block.
ChronosShutdown(t) ==
    /\ chronos.pc[t] = "idle"
    /\ chronos' =
           IF IsNone(chronos._pipeline)
           THEN ChronosReturn(chronos, t, "False")
           ELSE ChronosReturn([chronos EXCEPT !._pipeline = None,
                                              !._model_status = "uninitialized",
                                              !._error_message = None,
                                              !._model_variant = None],
                              t, "True")
    /\ UNCHANGED <<trading, timesfm>>

NextChronos ==
    \E t \in 1..ChronosThreads :
        \/ ChronosInitialize(t)
        \/ ChronosResolveVariant(t)
        \/ ChronosFromPretrained(t)
        \/ ChronosSetReady(t)
        \/ ChronosSetError(t)
        \/ ChronosRunInference(t)
        \/ ChronosPredict(t)
        \/ ChronosShutdown(t)

SpecChronos == InitServices /\ [][NextChronos]_vars

\* ------------------------------------------------- the TimesFM model service
\* Every block the code runs under _model_lock is one step; what it writes
\* outside the lock (in _initialize_from_hf and _initialize_from_local) is a
\* step per assignment.
TimesfmReturn(state, t, returned) ==
    [state EXCEPT !.pc[t] = "idle", !.returned[t] = returned]

\* initialize_model, its first locked block.
TimesfmInitialize(t) ==
    /\ timesfm.pc[t] = "idle"
    /\ timesfm' =
           IF timesfm._model_status = "ready"
           THEN TimesfmReturn(timesfm, t, "None")
           ELSE IF timesfm._model_status = "initializing"
           THEN TimesfmReturn(timesfm, t, "ModelInitializationError")
           ELSE [timesfm EXCEPT !._model_status = "initializing",
                                !._error_message = None,
                                !.pc[t] = "source"]
    /\ UNCHANGED <<trading, chronos>>

\* initialize_model choosing the source: "hf" and "local" go on to load
\* when their checkpoint or path is there, and raise when it is not; "mlflow"
\* and an unknown source_type raise.
TimesfmSource(t) ==
    /\ timesfm.pc[t] = "source"
    /\ \E source_type \in {"hf", "local", "mlflow", "s3"}, found \in BOOLEAN :
           timesfm' = [timesfm EXCEPT !.pc[t] =
                          IF source_type \in {"hf", "local"} /\ found
                          THEN "wrapper" ELSE "failed"]
    /\ UNCHANGED <<trading, chronos>>

\* _model_wrapper = TimesFMModel(...), written without the lock.
TimesfmCreateWrapper(t) ==
    /\ timesfm.pc[t] = "wrapper"
    /\ timesfm' = [timesfm EXCEPT !._model_wrapper = Some("wrapper"),
                                  !.pc[t] = "load_model"]
    /\ UNCHANGED <<trading, chronos>>

\* _model_wrapper.load_model(): the loaded model, or an exception (also the
\* AttributeError of a wrapper that a shutdown has set to None meanwhile).
TimesfmLoadModel(t) ==
    /\ timesfm.pc[t] = "load_model"
    /\ \E loaded \in BOOLEAN :
           timesfm' = [timesfm EXCEPT !.pc[t] =
                          IF loaded /\ ~IsNone(timesfm._model_wrapper)
                          THEN "forecaster" ELSE "failed"]
    /\ UNCHANGED <<trading, chronos>>

\* _forecaster_instance = Forecaster(timesfm_model), written without the
\* lock.
TimesfmCreateForecaster(t) ==
    /\ timesfm.pc[t] = "forecaster"
    /\ timesfm' = [timesfm EXCEPT !._forecaster_instance = Some("forecaster"),
                                  !.pc[t] = "loaded"]
    /\ UNCHANGED <<trading, chronos>>

\* initialize_model, the locked block after the source is loaded.
TimesfmSetReady(t) ==
    /\ timesfm.pc[t] = "loaded"
    /\ timesfm' = TimesfmReturn([timesfm EXCEPT !._model_status = "ready"], t, "None")
    /\ UNCHANGED <<trading, chronos>>

\* initialize_model, the locked block of the except clause.
TimesfmSetError(t) ==
    /\ timesfm.pc[t] = "failed"
    /\ timesfm' = TimesfmReturn([timesfm EXCEPT !._model_status = "error",
                                                !._error_message = Some("message"),
                                                !._forecaster_instance = None,
                                                !._model_wrapper = None],
                                t, "ModelInitializationError")
    /\ UNCHANGED <<trading, chronos>>

\* run_inference, its locked check, which takes the forecaster reference.
TimesfmRunInference(t) ==
    /\ timesfm.pc[t] = "idle"
    /\ timesfm' =
           IF timesfm._model_status # "ready" \/ IsNone(timesfm._forecaster_instance)
           THEN TimesfmReturn(timesfm, t, "ModelNotInitializedError")
           ELSE [timesfm EXCEPT !.pc[t] = "forecast"]
    /\ UNCHANGED <<trading, chronos>>

\* run_forecast outside the lock: the results, or the exception re-raised.
TimesfmForecast(t) ==
    /\ timesfm.pc[t] = "forecast"
    /\ \E returned \in {"forecast", "Exception"} :
           timesfm' = TimesfmReturn(timesfm, t, returned)
    /\ UNCHANGED <<trading, chronos>>

\* shutdown_model, one locked block.
TimesfmShutdown(t) ==
    /\ timesfm.pc[t] = "idle"
    /\ timesfm' =
           IF IsNone(timesfm._forecaster_instance) /\ timesfm._model_status = "uninitialized"
           THEN TimesfmReturn(timesfm, t, "False")
           ELSE TimesfmReturn([timesfm EXCEPT !._forecaster_instance = None,
                                              !._model_wrapper = None,
                                              !._model_status = "uninitialized",
                                              !._error_message = None],
                              t, "True")
    /\ UNCHANGED <<trading, chronos>>

NextTimesfm ==
    \E t \in 1..TimesfmThreads :
        \/ TimesfmInitialize(t)
        \/ TimesfmSource(t)
        \/ TimesfmCreateWrapper(t)
        \/ TimesfmLoadModel(t)
        \/ TimesfmCreateForecaster(t)
        \/ TimesfmSetReady(t)
        \/ TimesfmSetError(t)
        \/ TimesfmRunInference(t)
        \/ TimesfmForecast(t)
        \/ TimesfmShutdown(t)

SpecTimesfm == InitServices /\ [][NextTimesfm]_vars

\* ------------------------------------------------------------------ properties
\* A call has returned a result dict.
Returned == pc = "done" /\ out.kind = "result"

\* The required fields of a request that are missing or out of range.
Offending(params) ==
    {k \in {RequiredParams[i] : i \in 1..Len(RequiredParams)} :
        \/ k \notin DOMAIN params
        \/ OutOfRange(k, params[k])}

\* The request's strategy, as the dispatcher reads it.
StrategyOf(params) == Lower(Get(params, "strategy_type", "threshold"))

\* The request is in the terminal state: no cash and no position.
Terminal(params) == FLe(params.available_cash, 0) /\ FLe(params.current_position, 0)

\* C1: every result has position_after >= 0 and available_cash >= 0.
C1_NonNegative ==
    Returned => FGe(out.position_after, 0) /\ FGe(out.available_cash, 0)

C3_StoppedIff ==
    Returned => (out.stopped <=> (FLe(out.available_cash, 0) /\ FLe(out.position_after, 0)))

\* A sell that executed and exhausted the capital.
C3_Witness ==
    /\ Returned
    /\ out.action = "sell"
    /\ FGt(out.size, 0)
    /\ out.stopped

\* C4: an executed buy has size = min(signal size, available_cash /
\* current_price) and size * current_price <= the cash before the trade; an
\* executed sell has size = min(signal size, current_position) and size <= the
\* position before the trade.
C4_WithinResources ==
    Returned =>
        /\ out.action = "buy" =>
              /\ FEq(out.size, PyMin(out.signal_size,
                                     FDiv(req.available_cash, req.current_price)))
              /\ FLe(FMul(out.size, req.current_price), req.available_cash)
        /\ out.action = "sell" =>
              /\ FEq(out.size, PyMin(out.signal_size, req.current_position))
              /\ FLe(out.size, req.current_position)

\* C5: a buy or sell result has value = size * current_price and size > 0; a
\* hold result has size = 0 and value = 0.
C5_ValueOfTrade ==
    Returned =>
        /\ out.action \in {"buy", "sell"} =>
              /\ FEq(out.value, FMul(out.size, req.current_price))
              /\ FGt(out.size, 0)
        /\ out.action = "hold" => (out.size = 0 /\ out.value = 0)

C7_UnknownAlwaysRaises ==
    (pc = "done" /\ "strategy_type" \in DOMAIN req
        /\ StrategyOf(req) \notin StrategyTypeValues)
        => out.kind = "InvalidStrategyError"

\* C7, amended: a strategy_type that is, lower-cased, not threshold, return or
\* quantile raises InvalidStrategyError when the common fields pass validation
\* and the request is not in the terminal state; in the terminal state the
\* call returns the stopped hold, and with a missing or out-of-range common
\* field it raises InvalidParametersError.
C7_UnknownRaises ==
    (pc = "done" /\ "strategy_type" \in DOMAIN req
        /\ StrategyOf(req) \notin StrategyTypeValues)
        => IF Offending(req) # {} THEN out.kind = "InvalidParametersError"
           ELSE IF Terminal(req) THEN out.kind = "result" /\ out.stopped /\ out.signal = "none"
           ELSE out.kind = "InvalidStrategyError"

C7_Witness ==
    /\ pc = "done"
    /\ StrategyOf(req) = "momentum"
    /\ Offending(req) = {}
    /\ ~Terminal(req)
    /\ out.kind = "InvalidStrategyError"

\* C8: a call with a required field missing or out of range raises
\* InvalidParametersError naming one of the offending fields and returns no
\* result, in the terminal state too and before any signal is generated.
C8_CommonValidation ==
    (pc = "done" /\ Offending(req) # {})
        => /\ out.kind = "InvalidParametersError"
           /\ out.parameter \in Offending(req)
           /\ out.signal = "none"

\* An invalid forecast in the terminal state, for an unknown strategy.
C8_Witness ==
    /\ pc = "done"
    /\ Offending(req) = {"forecast_price"}
    /\ req.available_cash = 0
    /\ req.current_position = 0
    /\ StrategyOf(req) = "momentum"
    /\ out.kind = "InvalidParametersError"

\* The OHLC histories the request carries have one length.
OhlcKeys == {"open_history", "high_history", "low_history", "close_history"}

OhlcAligned(params) ==
    \A j \in OhlcKeys \cap DOMAIN params, k \in OhlcKeys \cap DOMAIN params :
        Len(params[j]) = Len(params[k])

C10_ReturnBand ==
    (/\ pc = "done"
     /\ StrategyOf(req) = "return"
     /\ out.signal \in {"buy", "sell", "hold"})
        => /\ out.signal = "buy"
                <=> FGt(FDiv(FSub(req.forecast_price, req.current_price), req.current_price),
                        Get(req, "threshold_value", 0))
           /\ out.signal = "sell"
                <=> FLt(FDiv(FSub(req.forecast_price, req.current_price), req.current_price),
                        FNeg(Get(req, "threshold_value", 0)))
           /\ out.signal = "hold" => out.signal_size = 0

\* An expected return exactly on the band's upper edge.
C10_Witness ==
    /\ pc = "done"
    /\ StrategyOf(req) = "return"
    /\ Get(req, "threshold_value", 0) = OneFifth
    /\ FDiv(FSub(req.forecast_price, req.current_price), req.current_price) = OneFifth
    /\ out.signal = "hold"

\* C11: a buy or sell signal of the return strategy has size <=
\* max_position_size when that is given and size >= min_position_size when
\* that is given, and a request with both given and max_position_size <
\* min_position_size is rejected with InvalidParametersError, no signal computed.
C11_SizeLimits ==
    (pc = "done" /\ StrategyOf(req) = "return")
        => /\ out.signal \in {"buy", "sell"} =>
                /\ "max_position_size" \in DOMAIN req
                      => FLe(out.signal_size, req.max_position_size)
                /\ "min_position_size" \in DOMAIN req
                      => FGe(out.signal_size, req.min_position_size)
           /\ (/\ Offending(req) = {}
               /\ ~Terminal(req)
               /\ {"max_position_size", "min_position_size"} \subseteq DOMAIN req
               /\ FLt(req.max_position_size, req.min_position_size))
                => out.kind = "InvalidParametersError" /\ out.signal = "raised"

\* The trailing window of the series a quantile request selects, and the
\* percentile of its forecast in that window.
QuantileWindow(params) ==
    LastWindow(Val(_get_history_array(params, Get(params, "which_history", "close"))),
               params.window_history)

QuantilePercentile(params) == Percentile(QuantileWindow(params), params.forecast_price)

\* A quantile request for which the generator reached the percentile.
QuantileComputed ==
    /\ pc = "done"
    /\ StrategyOf(req) = "quantile"
    /\ out.signal \in {"buy", "sell", "hold"}
    /\ Len(QuantileWindow(req)) >= Get(req, "min_history_length", DEFAULT_MIN_HISTORY_LENGTH)

\* Entry i of quantile_signals holds the percentile in its range [min, max).
InRange(quantile_signals, i, percentile) ==
    /\ FLe(quantile_signals[i].range[1], percentile)
    /\ FLt(percentile, quantile_signals[i].range[2])

\* The entry that holds the percentile and has none before it that does.
FirstInRange(quantile_signals, percentile) ==
    IF \E i \in 1..Len(quantile_signals) : InRange(quantile_signals, i, percentile)
    THEN CHOOSE i \in 1..Len(quantile_signals) :
            /\ InRange(quantile_signals, i, percentile)
            /\ \A j \in 1..(i - 1) : ~InRange(quantile_signals, j, percentile)
    ELSE 0

AboveWindow(params) ==
    \A i \in 1..Len(QuantileWindow(params)) :
        FLt(QuantileWindow(params)[i], params.forecast_price)

\* C13: with the forecast above every value of the trailing window
\* (percentile 100), an entry with range [95, 100], signal buy and multiplier
\* 1.0, and available_cash > 0, the call returns action buy.
C13_TopRangeBuys ==
    (/\ QuantileComputed
     /\ AboveWindow(req)
     /\ FGt(req.available_cash, 0)
     /\ \E i \in 1..Len(req.quantile_signals) :
           /\ req.quantile_signals[i].range = <<F(95), F(100)>>
           /\ req.quantile_signals[i].signal = "buy"
           /\ req.quantile_signals[i].multiplier = F(1))
        => out.kind = "result" /\ out.action = "buy"

\* C14: when the forecast is above every value of the trailing window of
\* the selected series, and the window passes the min_history_length check,
\* the percentile is exactly 100 (and so lies in no range), whatever
\* window_history and the history's length are.
C14_TopPercentile ==
    (QuantileComputed /\ AboveWindow(req))
        => /\ QuantilePercentile(req) = F(100)
           /\ out.signal = "hold"
           /\ out.reason = <<"no matching range">>

\* A history of three periods under a window of 20.
C14_Witness ==
    /\ QuantileComputed
    /\ AboveWindow(req)
    /\ req.window_history = 20
    /\ Len(QuantileWindow(req)) = 3
    /\ out.signal = "hold"

\* The rank of a quantile request's forecast in its window, over n values.
PercentileOver(params, n) ==
    FMul(FDiv(F(Cardinality({i \in 1..Len(QuantileWindow(params)) :
                                FLt(QuantileWindow(params)[i], params.forecast_price)})),
              F(n)),
         F(100))

\* The signal quantile_signals gives a percentile.
SignalAt(quantile_signals, percentile) ==
    IF FirstInRange(quantile_signals, percentile) = 0 THEN "hold"
    ELSE quantile_signals[FirstInRange(quantile_signals, percentile)].signal

\* C15, as stated: the percentile is the number of window values strictly
\* below the forecast, divided by window_history, times 100, also for
\* histories shorter than window_history; the signal is the one that
\* percentile selects.
C15_OverWindowHistory ==
    QuantileComputed
        => /\ QuantilePercentile(req) = PercentileOver(req, req.window_history)
           /\ out.signal = SignalAt(req.quantile_signals,
                                    PercentileOver(req, req.window_history))

\* C15, amended: the percentile is the number of window values strictly below
\* the forecast, divided by the number of values in the trailing window
\* (window_history, or the history's length when that is smaller), times 100.
C15_OverWindowLength ==
    QuantileComputed
        => /\ QuantilePercentile(req) = PercentileOver(req, Len(QuantileWindow(req)))
           /\ out.signal = SignalAt(req.quantile_signals,
                                    PercentileOver(req, Len(QuantileWindow(req))))

\* Two of three values below the forecast, under a window of 20: the buy range
\* [50, 100), where the rank over 20 would select the sell range [0, 50).
C15_Witness ==
    /\ QuantileComputed
    /\ req.window_history = 20
    /\ Len(QuantileWindow(req)) = 3
    /\ req.quantile_signals = QuantileSignalSets[1]
    /\ FLt(PercentileOver(req, req.window_history), F(50))
    /\ out.signal = "buy"

\* A threshold request of type atr that carries the four OHLC histories, and
\* the ATR the generator computes for it.
AtrRequest(params) ==
    /\ StrategyOf(params) = "threshold"
    /\ Get(params, "threshold_type", "absolute") = "atr"
    /\ OhlcKeys \subseteq DOMAIN params

AtrOf(params) ==
    _calculate_atr(params.open_history, params.high_history, params.low_history,
                   params.close_history,
                   Get(params, "window_history", DefaultWindowHistory),
                   Get(params, "min_history_length", DEFAULT_MIN_HISTORY_LENGTH))

\* Fewer than 2 periods are available: one of high, low, close is shorter than
\* min_history_length, or the window holds fewer than 2 periods.
FewerThanTwoPeriods(params) ==
    \/ \E k \in {"high_history", "low_history", "close_history"} :
          Len(params[k]) < Get(params, "min_history_length", DEFAULT_MIN_HISTORY_LENGTH)
    \/ Len(LastWindow(params.high_history,
                      Get(params, "window_history", DefaultWindowHistory))) < 2

\* C16: _calculate_atr returns 0.0 whenever fewer than 2 periods are available
\* in the window (a history of 0 or 1 periods, window_history 1, or one of
\* high, low, close shorter than min_history_length); the threshold is then 0
\* and the signal is never a hold.
C16_AtrZero ==
    (pc = "done" /\ AtrRequest(req) /\ FewerThanTwoPeriods(req))
        => /\ AtrOf(req) = [kind |-> "ok", value |-> 0]
           /\ out.signal \in {"buy", "sell"} => out.signal_size = Get(req, "execution_size", DEFAULT_EXECUTION_SIZE)
           /\ out.signal # "hold"
           /\ out.kind # "IndexError"

\* Three periods under window_history 1, a threshold_value of 1 and a
\* difference of 0.
C16_Witness ==
    /\ pc = "done"
    /\ AtrRequest(req)
    /\ Len(req.high_history) = 3
    /\ Get(req, "window_history", DefaultWindowHistory) = 1
    /\ Get(req, "threshold_value", 0) = F(1)
    /\ req.forecast_price = req.current_price
    /\ out.signal = "sell"

\* C17: a quantile request, or a threshold request of type atr, whose open,
\* high, low and close histories do not all have one length raises
\* InvalidParametersError and returns no result.
C17_MismatchedRejected ==
    (/\ pc = "done"
     /\ Offending(req) = {}
     /\ ~Terminal(req)
     /\ StrategyOf(req) = "quantile" \/ AtrRequest(req)
     /\ OhlcKeys \subseteq DOMAIN req
     /\ ~OhlcAligned(req))
        => out.kind = "InvalidParametersError"

\* C18: a threshold request whose threshold_type is not absolute, percentage,
\* std_dev or atr raises InvalidParametersError when it is not in the terminal
\* state.
C18_UnknownThresholdType ==
    (/\ pc = "done"
     /\ StrategyOf(req) = "threshold"
     /\ Offending(req) = {}
     /\ ~Terminal(req)
     /\ "threshold_type" \in DOMAIN req
     /\ req.threshold_type \notin {"absolute", "percentage", "std_dev", "atr"})
        => out.kind = "InvalidParametersError"

C20_PortfolioValue ==
    (/\ pc = "closed"
     /\ FGe(position, 0)
     /\ FGt(summary.current_price, 0)
     /\ FGe(cash, 0))
        => summary.portfolio_value = FAdd(cash, FMul(position, summary.current_price))

\* Cash and a position bought in an earlier call, valued at a price of 2.
C20_Witness ==
    /\ pc = "closed"
    /\ calls > 0
    /\ FGt(position, 0)
    /\ FGt(cash, 0)
    /\ summary.current_price = F(2)
    /\ summary.portfolio_value = FAdd(cash, FMul(position, F(2)))

\* Two entries of quantile_signals whose ranges share more than an end point.
Overlapping(quantile_signals) ==
    \E i, j \in 1..Len(quantile_signals) :
        /\ i < j
        /\ quantile_signals[i].range[1] < quantile_signals[j].range[2]
        /\ quantile_signals[j].range[1] < quantile_signals[i].range[2]

\* The body of the request but for its quantile_signals is one the schema accepts.
OtherwiseAccepted(body) ==
    QuantileStrategyRequest([body EXCEPT !.quantile_signals =
        << [range |-> <<0, F(100)>>, signal |-> "hold", multiplier |-> 0] >>]) = ""

\* C21: the API rejects a quantile request whose quantile_signals hold two
\* overlapping ranges with a validation error and accepts ranges that are only
\* adjacent, so the engine never receives overlapping ranges through the API.
C21_OverlapRejected ==
    (/\ pc = "done"
     /\ "quantile_signals" \in DOMAIN req
     /\ \A i \in 1..Len(req.quantile_signals) : QuantileSignalConfig(req.quantile_signals[i])
     /\ OtherwiseAccepted(req))
        => IF Overlapping(req.quantile_signals)
           THEN out.kind = "RequestValidationError"
           ELSE out.kind # "RequestValidationError"

\* An atr threshold request with one of the four OHLC series missing or shorter
\* than min_history_length.
AtrWithoutHistory(params) ==
    /\ StrategyOf(params) = "threshold"
    /\ Get(params, "threshold_type", "absolute") = "atr"
    /\ \E k \in OhlcKeys :
           \/ k \notin DOMAIN params
           \/ Len(params[k]) < Get(params, "min_history_length", DEFAULT_MIN_HISTORY_LENGTH)

\* C22: for a threshold request with threshold_type atr, when one of the four
\* OHLC series is missing or shorter than min_history_length the threshold is
\* threshold_value itself, so a price difference below threshold_value holds.
C22_AtrFallsBack ==
    (/\ pc = "done"
     /\ AtrWithoutHistory(req)
     /\ out.kind = "result"
     /\ out.signal # "none"
     /\ FLt(FAbs(FSub(req.forecast_price, req.current_price)),
            Get(req, "threshold_value", 0)))
        => out.signal = "hold"

\* C23: the threshold generator signals Sell only when forecast_price <
\* current_price and Buy only when forecast_price > current_price; with the two
\* equal the signal is Hold, whatever the threshold (a computed 0 included).
C23_NoTradeOnEqualPrices ==
    (/\ pc = "done"
     /\ StrategyOf(req) = "threshold"
     /\ out.kind = "result"
     /\ out.signal # "none")
        => /\ out.signal = "sell" => FLt(req.forecast_price, req.current_price)
           /\ out.signal = "buy" => FGt(req.forecast_price, req.current_price)

\* C24: _calculate_returns raises InvalidParametersError, naming the timeseries
\* parameter, whenever the series has at least 2 elements and holds a zero or
\* negative value; it never returns returns divided by such a price.
C24_NonPositiveRaises ==
    (/\ pc = "done"
     /\ "timeseries" \in DOMAIN req
     /\ Len(req.timeseries) >= 2
     /\ \E i \in 1..Len(req.timeseries) : FLe(req.timeseries[i], 0))
        => /\ out.kind = "InvalidParametersError"
           /\ out.parameter = "timeseries"

\* A return request sized by volatility.
NormalizedReturn(params) ==
    /\ StrategyOf(params) = "return"
    /\ Get(params, "position_sizing", "fixed") = "normalized"

\* The trailing window of the selected history, None when the history is
\* missing or shorter than min_history_length.
ReturnWindow(params) ==
    LET history_array == _get_history_array(params, Get(params, "which_history", "close"))
    IN  IF \/ IsNone(history_array)
           \/ Len(Val(history_array))
                  < Get(params, "min_history_length", DEFAULT_MIN_HISTORY_LENGTH)
        THEN None
        ELSE Some(LastWindow(Val(history_array),
                             Get(params, "window_history", DefaultWindowHistory)))

\* No volatility to size by: no window, fewer than two points in it, or
\* returns that do not vary.
NoVolatility(params) ==
    \/ IsNone(ReturnWindow(params))
    \/ Len(Val(ReturnWindow(params))) < 2
    \/ FEq(NpStd(_calculate_returns(Val(ReturnWindow(params)))), 0)

\* C25: in the return strategy with normalized sizing, when the selected
\* history is missing, too short, leaves fewer than two points in the window
\* or has zero return volatility, the Buy/Sell size before clamping is
\* execution_size, and the size is never not-a-number.
C25_NormalizedFallsBack ==
    (/\ pc = "done"
     /\ NormalizedReturn(req)
     /\ out.kind = "result"
     /\ out.signal \in {"buy", "sell"}
     /\ NoVolatility(req))
        => /\ ReturnPositionSize(req, "normalized",
                                 Get(req, "execution_size", DEFAULT_EXECUTION_SIZE),
                                 FDiv(FSub(req.forecast_price, req.current_price),
                                      req.current_price),
                                 Get(req, "min_history_length", DEFAULT_MIN_HISTORY_LENGTH))
                  = Get(req, "execution_size", DEFAULT_EXECUTION_SIZE)
           /\ ~IsNaN(out.signal_size)

\* C26: no call on a valid request outside the terminal state returns
\* stopped = true: an executed buy leaves a position, an executed sell leaves
\* cash, so only the entry guard produces stopped = true.
C26_NeverStoppedByTrade ==
    (Returned /\ ~Terminal(req)) => ~out.stopped

\* C26, amended: outside the terminal state stopped = true comes only from an
\* executed sell of the whole position whose value is 0, with no cash before it.
C26_StoppedByEmptySell ==
    (Returned /\ ~Terminal(req) /\ out.stopped)
        => /\ out.action = "sell"
           /\ out.size = req.current_position
           /\ out.value = 0
           /\ req.available_cash = 0

\* A position sold whole for a value of 0, which stops the strategy.
C26_Witness ==
    /\ Returned
    /\ ~Terminal(req)
    /\ out.stopped
    /\ out.action = "sell"
    /\ FGt(out.size, 0)
    /\ out.value = 0
    /\ out.available_cash = 0
    /\ out.position_after = 0

\* C27: value conservation.  For every result of execute_trading_signal the
\* returned cash and position, valued at the call's current_price, are worth
\* what the request's cash and position were worth at that price.
C27_ValueConserved ==
    Returned
        => FEq(get_portfolio_value(out.position_after, req.current_price, out.available_cash),
               get_portfolio_value(req.current_position, req.current_price,
                                   req.available_cash))

\* A quantile request with fixed sizing whose signal came from a matched entry.
QuantileFixedMatched ==
    /\ QuantileComputed
    /\ Get(req, "position_sizing", "fixed") = "fixed"
    /\ FirstInRange(req.quantile_signals, QuantilePercentile(req)) # 0

\* The multiplier of the matched entry.
MatchedMultiplier(params) ==
    params.quantile_signals[FirstInRange(params.quantile_signals,
                                         QuantilePercentile(params))].multiplier

\* The size the matched entry's multiplier gives: that share of the affordable
\* size for a buy, of the position for a sell.
MultiplierSize(params, action) ==
    IF action = "buy"
    THEN FMul(FDiv(params.available_cash, params.current_price), MatchedMultiplier(params))
    ELSE FMul(params.current_position, MatchedMultiplier(params))

\* C28: in the quantile strategy with fixed sizing an executed buy spends at
\* most multiplier * available_cash, an executed sell sells at most
\* multiplier * current_position, and a matched entry with multiplier 0 never
\* trades, whatever max_position_size and min_position_size are.
C28_MultiplierBounds ==
    (QuantileFixedMatched /\ out.action \in {"buy", "sell"})
        => /\ out.action = "buy"
                => FLe(out.value, FMul(MatchedMultiplier(req), req.available_cash))
           /\ out.action = "sell"
                => FLe(out.size, FMul(MatchedMultiplier(req), req.current_position))
           /\ MatchedMultiplier(req) # 0

\* C28, amended: for a request whose cash and position are numbers >= 0, the
\* executed size is at most the multiplier's size, or at most
\* min_position_size when one is given and is larger; a matched entry with
\* multiplier 0 trades only when min_position_size is given.
C28_MultiplierOrMinimum ==
    (/\ QuantileFixedMatched
     /\ out.action \in {"buy", "sell"}
     /\ FGe(req.available_cash, 0)
     /\ FGe(req.current_position, 0))
        => /\ FLe(out.size,
                  IF "min_position_size" \in DOMAIN req
                  THEN PyMax(MultiplierSize(req, out.action), req.min_position_size)
                  ELSE MultiplierSize(req, out.action))
           /\ MatchedMultiplier(req) = 0 => "min_position_size" \in DOMAIN req

\* A buy at half of the affordable size, no minimum given, the size capped by
\* neither limit.
C28_Witness ==
    /\ QuantileFixedMatched
    /\ out.action = "buy"
    /\ "min_position_size" \notin DOMAIN req
    /\ MatchedMultiplier(req) = FDiv(F(1), F(2))
    /\ out.size = MultiplierSize(req, "buy")
    /\ FGt(out.size, 0)

\* A thread is inside initialize_model, past its first locked block.
ChronosInitializing(t) ==
    chronos.pc[t] \in {"variant", "from_pretrained", "loaded", "failed"}

\* C29: a Chronos initialize_model call that sets the status to
\* "initializing" sets it to "ready" or "error" before it returns or raises,
\* whatever its arguments: the status is never "initializing" with no
\* initialization running.
C29_InitializingIsRunning ==
    chronos._model_status = "initializing"
        => \E t \in 1..ChronosThreads : ChronosInitializing(t)

\* A thread is in the model-loading phase of initialize_model: past the
\* first locked block, with the forecaster not yet created.
TimesfmLoading(t) ==
    timesfm.pc[t] \in {"source", "wrapper", "load_model", "forecaster"}

\* C30: under every interleaving of TimesFM initialize_model, shutdown_model
\* and run_inference calls, the forecaster instance is present whenever the
\* status is "ready", and at most one initialize_model call is loading.
C30_ReadyHasForecasterOneLoader ==
    /\ timesfm._model_status = "ready" => ~IsNone(timesfm._forecaster_instance)
    /\ Cardinality({t \in 1..TimesfmThreads : TimesfmLoading(t)}) <= 1
====
